---------------------------- MODULE Spec2Model ----------------------------
(***************************************************************************)
(* A model of char-iter (src/src/lib.rs): an inclusive, double-ended,      *)
(* exact-size iterator over a range of Unicode scalar values that skips    *)
(* the surrogate block 0xD800..0xDFFF.                                     *)
(*                                                                         *)
(* A `char` is modelled by its codepoint (a natural number); an            *)
(* Option<T> by a sequence of length 0 (None) or 1 (Some(x)); the struct   *)
(* Iter by a record with the fields start, end and finished.               *)
(***************************************************************************)
EXTENDS Integers, Sequences, FiniteSets, TLC

\* ----------------------------------------------------------------- bounds
\* The longest window (number of scalar values) the inputs of `new` span.
MaxLen == 4
\* How many calls that return None are explored on a finished cursor.
MaxExtraCalls == 2
\* How many next/next_back calls are explored on a window of any length.
MaxWideCalls == 4

\* ------------------------------------------------------ program constants
SUR_START == 55296
SUR_END == 57343
BEFORE_SUR == SUR_START - 1
AFTER_SUR == SUR_END + 1
\* char::MAX, '\u{10FFFF}'
CHAR_MAX == 1114111
\* 'a'
CHAR_A == 97

None == << >>
Some(x) == << x >>

\* std::char::from_u32(v).is_some(): v is a Unicode scalar value.
from_u32_is_some(v) == v >= 0 /\ v <= CHAR_MAX /\ ~(v >= SUR_START /\ v <= SUR_END)

\* ------------------------------------------------------------------- state
VARIABLES
    iter,        \* Option<Iter>: None when `new` panicked, else Some(the cursor)
    arg_start,   \* the arguments `new` was called with
    arg_end,
    calls,       \* the last TraceLen calls of next/next_back: [op, ret]
    ncalls,      \* how many calls of next/next_back were made
    nnone,       \* how many of them returned None
    hint,        \* Option<(usize, Option<usize>)>: what the last size_hint() returned
    assert_ok    \* FALSE once the debug_assert! in step has failed

vars == << iter, arg_start, arg_end, calls, ncalls, nnone, hint, assert_ok >>

\* The calls kept in `calls`: every call of a run over a window of MaxLen values.
TraceLen == MaxLen + MaxExtraCalls

\* ------------------------------------------------------------- operations
\* new, had it swapped reversed bounds instead of rejecting them.
new_swapping(start, end) ==
    IF start <= end
    THEN Some([start |-> start, end |-> end, finished |-> FALSE])
    ELSE Some([start |-> end, end |-> start, finished |-> FALSE])

\* pub fn new(start, end) -> Iter; None models the panic of assert!(start <= end).
new(start, end) ==
    IF start <= end
    THEN Some([start |-> start, end |-> end, finished |-> FALSE])
    ELSE None

\* step, had it not known of the surrogate block.
step_no_gap(c, d) == IF d = "Forward" THEN c + 1 ELSE c - 1

\* step, had only its forward direction jumped the surrogate block.
step_back_no_gap(c, d) ==
    IF d = "Forward"
    THEN IF c = BEFORE_SUR THEN AFTER_SUR ELSE c + 1
    ELSE c - 1

\* step, had its forward jump landed on the last surrogate.
step_short_jump(c, d) ==
    IF d = "Forward"
    THEN IF c = BEFORE_SUR THEN SUR_END ELSE c + 1
    ELSE IF c = AFTER_SUR THEN BEFORE_SUR ELSE c - 1

\* step, had its backward jump been tested at the wrong edge of the block.
step_back_wrong_edge(c, d) ==
    IF d = "Forward"
    THEN IF c = BEFORE_SUR THEN AFTER_SUR ELSE c + 1
    ELSE IF c = BEFORE_SUR THEN AFTER_SUR ELSE c - 1

\* fn step(c, d): the u32 new_val, transmuted to a char (the same number).
\* new_val is computed in the integers: val <= CHAR_MAX, so val + 1 fits a u32,
\* and val - 1 leaves the u32 range only as -1 (from val = 0), which is no
\* scalar value whether the build wraps it to 0xFFFFFFFF or panics on the
\* overflow. The debug_assert! of the result is recorded by Call in assert_ok.
step(c, d) ==
    LET val == c
        new_val == IF d = "Forward"
                   THEN IF val = BEFORE_SUR THEN AFTER_SUR ELSE val + 1
                   ELSE IF val = AFTER_SUR THEN BEFORE_SUR ELSE val - 1
    IN  new_val

\* next, had it treated the window as exclusive of its end: the last value is
\* dropped instead of yielded.
next_exclusive(self) ==
    IF self.finished
    THEN [self |-> self, ret |-> None, stepped |-> None]
    ELSE IF self.start = self.end
         THEN [self |-> [self EXCEPT !.finished = TRUE],
               ret |-> None, stepped |-> None]
         ELSE [self |-> [self EXCEPT !.start = step(self.start, "Forward")],
               ret |-> Some(self.start),
               stepped |-> Some(step(self.start, "Forward"))]

\* next, had it read the value to return after stepping.
next_step_first(self) ==
    IF self.finished
    THEN [self |-> self, ret |-> None, stepped |-> None]
    ELSE IF self.start = self.end
         THEN [self |-> [self EXCEPT !.finished = TRUE],
               ret |-> Some(self.start), stepped |-> None]
         ELSE [self |-> [self EXCEPT !.start = step(self.start, "Forward")],
               ret |-> Some(step(self.start, "Forward")),
               stepped |-> Some(step(self.start, "Forward"))]

\* next, had it stepped past the last value too.
next_always_step(self) ==
    IF self.finished
    THEN [self |-> self, ret |-> None, stepped |-> None]
    ELSE [self |-> [self EXCEPT !.start = step(self.start, "Forward"),
                                !.finished = (self.start = self.end)],
          ret |-> Some(self.start),
          stepped |-> Some(step(self.start, "Forward"))]

\* Iterator::next: the cursor after the call, the value returned and, when
\* step was called, its result.
next(self) ==
    IF self.finished
    THEN [self |-> self, ret |-> None, stepped |-> None]
    ELSE IF self.start = self.end
         THEN [self |-> [self EXCEPT !.finished = TRUE],
               ret |-> Some(self.start), stepped |-> None]
         ELSE [self |-> [self EXCEPT !.start = step(self.start, "Forward")],
               ret |-> Some(self.start),
               stepped |-> Some(step(self.start, "Forward"))]

\* next_back, had it not looked at `finished`.
next_back_unchecked(self) ==
    IF self.start = self.end
    THEN [self |-> [self EXCEPT !.finished = TRUE],
          ret |-> Some(self.end), stepped |-> None]
    ELSE [self |-> [self EXCEPT !.end = step(self.end, "Backward")],
          ret |-> Some(self.end),
          stepped |-> Some(step(self.end, "Backward"))]

\* next_back, had it returned the front of the window.
next_back_front(self) ==
    IF self.finished
    THEN [self |-> self, ret |-> None, stepped |-> None]
    ELSE IF self.start = self.end
         THEN [self |-> [self EXCEPT !.finished = TRUE],
               ret |-> Some(self.start), stepped |-> None]
         ELSE [self |-> [self EXCEPT !.end = step(self.end, "Backward")],
               ret |-> Some(self.start),
               stepped |-> Some(step(self.end, "Backward"))]

\* next_back, had it treated the window as exclusive of its start.
next_back_exclusive(self) ==
    IF self.finished
    THEN [self |-> self, ret |-> None, stepped |-> None]
    ELSE IF self.start = self.end
         THEN [self |-> [self EXCEPT !.finished = TRUE],
               ret |-> None, stepped |-> None]
         ELSE [self |-> [self EXCEPT !.end = step(self.end, "Backward")],
               ret |-> Some(self.end),
               stepped |-> Some(step(self.end, "Backward"))]

\* next_back, had it set `finished` on every call.
next_back_finishing(self) ==
    IF self.finished
    THEN [self |-> self, ret |-> None, stepped |-> None]
    ELSE IF self.start = self.end
         THEN [self |-> [self EXCEPT !.finished = TRUE],
               ret |-> Some(self.end), stepped |-> None]
         ELSE [self |-> [self EXCEPT !.end = step(self.end, "Backward"),
                                     !.finished = TRUE],
               ret |-> Some(self.end),
               stepped |-> Some(step(self.end, "Backward"))]

\* next_back, had it written the stepped value to `start`.
next_back_writes_start(self) ==
    IF self.finished
    THEN [self |-> self, ret |-> None, stepped |-> None]
    ELSE IF self.start = self.end
         THEN [self |-> [self EXCEPT !.finished = TRUE],
               ret |-> Some(self.end), stepped |-> None]
         ELSE [self |-> [self EXCEPT !.start = step(self.end, "Backward")],
               ret |-> Some(self.end),
               stepped |-> Some(step(self.end, "Backward"))]

\* DoubleEndedIterator::next_back.
next_back(self) ==
    IF self.finished
    THEN [self |-> self, ret |-> None, stepped |-> None]
    ELSE IF self.start = self.end
         THEN [self |-> [self EXCEPT !.finished = TRUE],
               ret |-> Some(self.end), stepped |-> None]
         ELSE [self |-> [self EXCEPT !.end = step(self.end, "Backward")],
               ret |-> Some(self.end),
               stepped |-> Some(step(self.end, "Backward"))]

\* size_hint, had it not subtracted the surrogate block.
size_hint_naive(self) ==
    LET len == IF self.finished THEN 0 ELSE self.end - self.start + 1
    IN  << len, Some(len) >>

\* size_hint, had it not looked at `finished`.
size_hint_unfinished(self) ==
    LET naive_count == self.end - self.start + 1
        len == IF self.start <= BEFORE_SUR /\ self.end >= AFTER_SUR
               THEN naive_count - (SUR_END - SUR_START + 1)
               ELSE naive_count
    IN  << len, Some(len) >>

\* Iterator::size_hint: (len, Some(len)). The subtractions are computed in the
\* integers: a negative naive_count or len is one the u32/usize arithmetic of
\* the code would wrap (or panic on).
size_hint(self) ==
    LET len ==
            IF self.finished
            THEN 0
            ELSE LET start == self.start
                     end == self.end
                     naive_count == end - start + 1
                 IN  IF start <= BEFORE_SUR /\ end >= AFTER_SUR
                     THEN naive_count - (SUR_END - SUR_START + 1)
                     ELSE naive_count
    IN  << len, Some(len) >>

\* ----------------------------------------------------------------- inputs
\* The scalar values within MaxLen of the ends of the domain, of 'a' and of
\* the two neighbours of the surrogate block.
Anchors == { 0, CHAR_A, BEFORE_SUR, AFTER_SUR, CHAR_MAX }

InputChars ==
    UNION { { c \in (a - MaxLen + 1) .. (a + MaxLen - 1) : from_u32_is_some(c) } :
            a \in Anchors }

\* The scalar values of the integer interval lo..hi.
ScalarsIn(lo, hi) ==
    LET below == IF hi < BEFORE_SUR THEN hi ELSE BEFORE_SUR
        above == IF lo > AFTER_SUR THEN lo ELSE AFTER_SUR
    IN  (lo .. below) \cup (above .. hi)

\* The pairs `new` is called with: every reversed pair, and every window of
\* at most MaxLen scalar values.
InputPairs ==
    { p \in InputChars \X InputChars :
        \/ p[1] > p[2]
        \/ /\ p[2] - p[1] < MaxLen + (SUR_END - SUR_START + 1)
           /\ Cardinality(ScalarsIn(p[1], p[2])) <= MaxLen }

\* ---------------------------------------------------------------- actions
Record(trace, entry) ==
    IF Len(trace) < TraceLen
    THEN Append(trace, entry)
    ELSE Append(Tail(trace), entry)

InitWith(start, end) ==
    /\ arg_start = start
    /\ arg_end = end
    /\ iter = new(start, end)
    /\ calls = << >>
    /\ ncalls = 0
    /\ nnone = 0
    /\ hint = None
    /\ assert_ok = TRUE

Init == \E p \in InputPairs : InitWith(p[1], p[2])

Call(op, r) ==
    /\ r.ret = None => nnone < MaxExtraCalls
    /\ iter' = Some(r.self)
    /\ calls' = Record(calls, [op |-> op, ret |-> r.ret])
    /\ ncalls' = ncalls + 1
    /\ nnone' = IF r.ret = None THEN nnone + 1 ELSE nnone
    /\ assert_ok' = (assert_ok /\ (r.stepped # None => from_u32_is_some(r.stepped[1])))
    /\ UNCHANGED << arg_start, arg_end, hint >>

CallNext ==
    /\ iter # None
    /\ Call("next", next(iter[1]))

CallNextBack ==
    /\ iter # None
    /\ Call("next_back", next_back(iter[1]))

CallSizeHint ==
    /\ iter # None
    /\ hint' = Some(size_hint(iter[1]))
    /\ UNCHANGED << iter, arg_start, arg_end, calls, ncalls, nnone, assert_ok >>

Next == CallNext \/ CallNextBack \/ CallSizeHint

Spec == Init /\ [][Next]_vars

\* The whole domain, consumed from the front.
InitFull == InitWith(0, CHAR_MAX)

NextFull == CallNext

SpecFull == InitFull /\ [][NextFull]_vars

\* Windows of any length between the input chars, the whole domain among them,
\* each driven from both ends for MaxWideCalls calls.
WidePairs == { p \in InputChars \X InputChars : p[1] <= p[2] }

InitWide == \E p \in WidePairs : InitWith(p[1], p[2])

WideNext == ncalls < MaxWideCalls /\ CallNext

WideNextBack == ncalls < MaxWideCalls /\ CallNextBack

NextWide == WideNext \/ WideNextBack \/ CallSizeHint

SpecWide == InitWide /\ [][NextWide]_vars

\* ------------------------------------------------- reading the call trace
Live == iter # None

\* The values yielded so far, in the order of the calls.
YieldedOf(trace) ==
    LET some == SelectSeq(trace, LAMBDA e : e.ret # None)
    IN  [i \in 1 .. Len(some) |-> some[i].ret[1]]

Yielded == YieldedOf(calls)

FrontYielded == YieldedOf(SelectSeq(calls, LAMBDA e : e.op = "next"))

BackYielded == YieldedOf(SelectSeq(calls, LAMBDA e : e.op = "next_back"))

Range(s) == { s[i] : i \in 1 .. Len(s) }

Reverse(s) == [i \in 1 .. Len(s) |-> s[Len(s) + 1 - i]]

\* The scalar values of the window `new` was given.
OrigWindow == ScalarsIn(arg_start, arg_end)

\* The values of the window not yet produced.
NotYetProduced == OrigWindow \ Range(Yielded)

MinOf(S) == CHOOSE x \in S : \A y \in S : x <= y

MaxOf(S) == CHOOSE x \in S : \A y \in S : x >= y

OnlyOp(op) == \A i \in 1 .. Len(calls) : calls[i].op = op

SpansSurrogates == arg_start < SUR_START /\ arg_end > SUR_END

\* b is the scalar value right after a.
Adjacent(a, b) == a < b /\ ScalarsIn(a + 1, b - 1) = {}

\* The trace holds every call made (the inputs of Spec never outgrow it).
TraceComplete == Len(calls) = ncalls

\* ------------------------------------------------------------------ claims

\* C1: for every window start <= end and every interleaving of next and
\* next_back, no value is yielded twice, every yielded value is a scalar value
\* of the original window, and once the cursor is finished every scalar value
\* of the window has been yielded.
C1_Partition ==
    Live =>
        /\ TraceComplete
        /\ \A i, j \in 1 .. Len(Yielded) : i # j => Yielded[i] # Yielded[j]
        /\ Range(Yielded) \subseteq OrigWindow
        /\ iter[1].finished => Range(Yielded) = OrigWindow

C1_Witness ==
    /\ Live
    /\ iter[1].finished
    /\ SpansSurrogates
    /\ Len(Yielded) >= 3
    /\ Len(FrontYielded) >= 1
    /\ Len(BackYielded) >= 1

\* The length size_hint reports for the cursor, and whether its two
\* components agree.
ReportedLen(it) == size_hint(it[1])[1]

\* The step is a call of next or next_back.
IsCall == ncalls' = ncalls + 1

\* C2: right after new and after every next/next_back call, in any
\* interleaving, size_hint() is (n, Some(n)) with n the number of values of the
\* window not yet produced; each call lowers n by exactly 1 until it is 0, where
\* it stays; and a size_hint() call returns that pair.
C2_ExactSize ==
    /\ [](Live => /\ TraceComplete
                  /\ size_hint(iter[1]) =
                         << Cardinality(NotYetProduced),
                            Some(Cardinality(NotYetProduced)) >>)
    /\ [][IsCall =>
            ReportedLen(iter') =
                IF ReportedLen(iter) > 0 THEN ReportedLen(iter) - 1 ELSE 0]_vars
    /\ [][CallSizeHint =>
            hint' = Some(<< Cardinality(NotYetProduced),
                            Some(Cardinality(NotYetProduced)) >>)]_vars

C2_Witness ==
    /\ Live
    /\ SpansSurrogates
    /\ Len(FrontYielded) >= 1
    /\ Len(BackYielded) >= 1
    /\ ~iter[1].finished
    /\ iter[1].start <= BEFORE_SUR
    /\ iter[1].end >= AFTER_SUR
    /\ hint = Some(<< 2, Some(2) >>)
    /\ size_hint(iter[1]) = << 2, Some(2) >>

\* C3: for a window whose integer span includes 0xD800..0xDFFF, no value
\* yielded by next or next_back lies in that block; new(0xD7FF, 0xE000) driven
\* to exhaustion yields exactly 0xD7FF, 0xE000 by next alone and exactly
\* 0xE000, 0xD7FF by next_back alone.
C3_SurrogateExclusion ==
    (Live /\ SpansSurrogates) =>
        /\ TraceComplete
        /\ \A i \in 1 .. Len(Yielded) :
               ~(Yielded[i] >= SUR_START /\ Yielded[i] <= SUR_END)
        /\ (arg_start = BEFORE_SUR /\ arg_end = AFTER_SUR /\ iter[1].finished) =>
               /\ OnlyOp("next") => Yielded = << BEFORE_SUR, AFTER_SUR >>
               /\ OnlyOp("next_back") => Yielded = << AFTER_SUR, BEFORE_SUR >>

C3_Witness ==
    /\ Live
    /\ arg_start = BEFORE_SUR
    /\ arg_end = AFTER_SUR
    /\ iter[1].finished
    /\ OnlyOp("next")
    /\ nnone = 1
    /\ Yielded = << 55295, 57344 >>

\* C4: new(start, end) with start > end panics and leaves no cursor (the bounds
\* are neither swapped nor clamped); with start <= end it returns a cursor with
\* finished = false and exactly the given start and end.
C4_Construction ==
    /\ arg_start > arg_end => iter = None
    /\ arg_start <= arg_end =>
           /\ Live
           /\ ncalls = 0 =>
                  iter[1] = [start |-> arg_start, end |-> arg_end, finished |-> FALSE]

C4_Witness ==
    /\ arg_start = CHAR_A + 1
    /\ arg_end = CHAR_A
    /\ iter = None
    /\ ~ENABLED Next

\* C5: once the cursor is finished (which is exactly when it reports size 0),
\* every further call of next or next_back returns None and changes nothing,
\* and size_hint keeps returning 0.
C5_IdempotentExhaustion ==
    /\ [](Live => (iter[1].finished <=> ReportedLen(iter) = 0))
    /\ [](Live /\ iter[1].finished => size_hint(iter[1]) = << 0, Some(0) >>)
    /\ [][(Live /\ iter[1].finished /\ IsCall) =>
            /\ calls'[Len(calls')].ret = None
            /\ iter' = iter]_vars
    /\ [][(Live /\ iter[1].finished) => iter'[1].finished]_vars

C5_Witness ==
    /\ Live
    /\ iter[1].finished
    /\ nnone >= 2
    /\ \E i, j \in 1 .. Len(calls) :
           /\ calls[i].ret = None /\ calls[i].op = "next"
           /\ calls[j].ret = None /\ calls[j].op = "next_back"
    /\ hint = Some(<< 0, Some(0) >>)

\* The values yielded by the calls before call i.
YieldedBefore(i) == Range(YieldedOf(SubSeq(calls, 1, i - 1)))

StrictlyIncreasing(s) == \A i, j \in 1 .. Len(s) : i < j => s[i] < s[j]

\* C6: under any interleaving, a next call on an unfinished cursor yields the
\* smallest value of the original window no call has yielded yet, a next_back
\* call the largest (a call returns None only when nothing is left); so the
\* values next yields increase strictly, those next_back yields decrease
\* strictly, and each value from the front is below each value from the back.
C6_MixedOrdering ==
    Live =>
        /\ TraceComplete
        /\ \A i \in 1 .. Len(calls) :
               LET left == OrigWindow \ YieldedBefore(i)
               IN  IF left = {}
                   THEN calls[i].ret = None
                   ELSE calls[i].ret =
                            Some(IF calls[i].op = "next" THEN MinOf(left) ELSE MaxOf(left))
        /\ StrictlyIncreasing(FrontYielded)
        /\ StrictlyIncreasing(Reverse(BackYielded))
        /\ \A f \in Range(FrontYielded), b \in Range(BackYielded) : f < b

C6_Witness ==
    /\ Live
    /\ SpansSurrogates
    /\ Len(calls) >= 4
    /\ calls[1].op = "next_back"
    /\ calls[2].op = "next"
    /\ calls[3].op = "next_back"
    /\ calls[4].op = "next"
    /\ Len(FrontYielded) = 2
    /\ Len(BackYielded) = 2

\* The cursor driven to exhaustion by `op` alone, as Iterator::collect does:
\* the values yielded and the cursor left. At most `fuel` values are taken.
RECURSIVE Collect(_, _, _)
Collect(self, op, fuel) ==
    LET r == IF op = "next" THEN next(self) ELSE next_back(self)
    IN  IF r.ret = None \/ fuel = 0
        THEN [out |-> << >>, done |-> r.ret = None]
        ELSE LET rest == Collect(r.self, op, fuel - 1)
             IN  [out |-> << r.ret[1] >> \o rest.out, done |-> rest.done]

\* C7: for every window start <= end, exhausting a cursor by next_back alone
\* yields the reverse of what exhausting a cursor over the same bounds by next
\* alone yields.
C7_ReverseSymmetry ==
    Live =>
        LET fwd == Collect(new(arg_start, arg_end)[1], "next", MaxLen)
            bwd == Collect(new(arg_start, arg_end)[1], "next_back", MaxLen)
        IN  /\ TraceComplete
            /\ fwd.done
            /\ bwd.done
            /\ bwd.out = Reverse(fwd.out)
            /\ (iter[1].finished /\ OnlyOp("next")) => Yielded = fwd.out
            /\ (iter[1].finished /\ OnlyOp("next_back")) => Yielded = Reverse(fwd.out)

C7_Witness ==
    /\ Live
    /\ SpansSurrogates
    /\ iter[1].finished
    /\ OnlyOp("next_back")
    /\ nnone = 1
    /\ Len(Yielded) >= 3
    /\ Yielded = Reverse(Collect(new(arg_start, arg_end)[1], "next", MaxLen).out)

\* C8: for every window start <= end consumed by next alone, the first value
\* yielded is start, each value yielded after another is the scalar value right
\* after it, and the last value yielded before exhaustion is end.
C8_InclusiveBounds ==
    (Live /\ OnlyOp("next")) =>
        /\ TraceComplete
        /\ Len(Yielded) >= 1 => Yielded[1] = arg_start
        /\ \A i \in 1 .. Len(Yielded) - 1 : Adjacent(Yielded[i], Yielded[i + 1])
        /\ iter[1].finished =>
               /\ Len(Yielded) >= 1
               /\ Yielded[Len(Yielded)] = arg_end

C8_Witness ==
    /\ Live
    /\ OnlyOp("next")
    /\ iter[1].finished
    /\ nnone = 1
    /\ SpansSurrogates
    /\ Len(Yielded) >= 3
    /\ Yielded[1] = arg_start
    /\ Yielded[Len(Yielded)] = arg_end

\* C9: for every scalar value c, new(c, c) reports size 1; its first call,
\* next or next_back, yields c; after it the cursor reports size 0 and every
\* later call from either end returns None.
C9_SingleElement ==
    (Live /\ arg_start = arg_end) =>
        /\ TraceComplete
        /\ ncalls = 0 => size_hint(iter[1]) = << 1, Some(1) >>
        /\ ncalls >= 1 =>
               /\ calls[1].ret = Some(arg_start)
               /\ size_hint(iter[1]) = << 0, Some(0) >>
               /\ \A i \in 2 .. Len(calls) : calls[i].ret = None
        /\ Yielded \in { << >>, << arg_start >> }

C9_Witness ==
    /\ Live
    /\ arg_start = arg_end
    /\ arg_start = CHAR_A
    /\ ncalls = 3
    /\ calls[1] = [op |-> "next_back", ret |-> Some(CHAR_A)]
    /\ calls[2] = [op |-> "next", ret |-> None]
    /\ calls[3] = [op |-> "next_back", ret |-> None]
    /\ hint = Some(<< 0, Some(0) >>)

\* The count tests::full_range expects of the whole domain.
FullCount == 1114112 - 2048

\* The k-th (from 1) of the integers 0..0xD800 (exclusive) followed by
\* 0xE000..=0x10FFFF.
FullNth(k) == IF k <= SUR_START THEN k - 1 ELSE (k - 1 - SUR_START) + AFTER_SUR

\* C10: new(U+0000, U+10FFFF) reports initial size 1114112 - 2048 = 1112064,
\* and consumed by next alone its k-th call yields the k-th of the integers
\* 0..0xD800 followed by 0xE000..=0x10FFFF, for k up to 1112064; then the
\* cursor is finished and next returns None.
C10_FullDomain ==
    /\ Live
    /\ arg_start = 0
    /\ arg_end = 1114111
    /\ ncalls = 0 => size_hint(iter[1]) = << 1112064, Some(1112064) >>
    /\ iter[1].finished <=> ncalls >= FullCount
    /\ ncalls >= 1 =>
           calls[Len(calls)] =
               [op |-> "next",
                ret |-> IF ncalls <= FullCount THEN Some(FullNth(ncalls)) ELSE None]

C10_Witness ==
    /\ Live
    /\ iter[1].finished
    /\ ncalls = 1112064 + 1
    /\ Len(calls) >= 3
    /\ calls[Len(calls)].ret = None
    /\ calls[Len(calls) - 1].ret = Some(1114111)
    /\ calls[Len(calls) - 2].ret = Some(1114110)

\* C11: in every state reached from a successful new by any next/next_back
\* calls, while finished is false, start <= end, start and end are scalar
\* values (within 0..0x10FFFF and outside 0xD800..0xDFFF), and neither start
\* nor end has been yielded yet.
C11_StateInvariant ==
    (Live /\ ~iter[1].finished) =>
        /\ TraceComplete
        /\ iter[1].start <= iter[1].end
        /\ from_u32_is_some(iter[1].start)
        /\ from_u32_is_some(iter[1].end)
        /\ iter[1].start \notin Range(Yielded)
        /\ iter[1].end \notin Range(Yielded)

C11_Witness ==
    /\ Live
    /\ ~iter[1].finished
    /\ Len(FrontYielded) >= 1
    /\ Len(BackYielded) >= 1
    /\ FrontYielded[Len(FrontYielded)] = BEFORE_SUR
    /\ iter[1].start = AFTER_SUR
    /\ iter[1].end > iter[1].start

\* C12: in every reachable state, the step call next makes (if any) is on a
\* start below 0x10FFFF and different from end, and the step call next_back
\* makes (if any) is on an end above 0 and different from start; so val + 1 and
\* val - 1 stay within the u32 range, the result is a scalar value, and the
\* debug assertion in step has never failed.
C12_StepSafety ==
    /\ assert_ok
    /\ Live =>
           LET f == next(iter[1])
               b == next_back(iter[1])
           IN  /\ f.stepped # None =>
                      /\ iter[1].start # iter[1].end
                      /\ iter[1].start >= 0
                      /\ iter[1].start < CHAR_MAX
                      /\ f.stepped[1] > iter[1].start
                      /\ from_u32_is_some(f.stepped[1])
               /\ b.stepped # None =>
                      /\ iter[1].start # iter[1].end
                      /\ iter[1].end > 0
                      /\ iter[1].end <= CHAR_MAX
                      /\ b.stepped[1] < iter[1].end
                      /\ from_u32_is_some(b.stepped[1])

C12_Witness ==
    /\ Live
    /\ assert_ok
    /\ arg_start = 0
    /\ ~iter[1].finished
    /\ iter[1].start = 0
    /\ iter[1].end = 1
    /\ Len(BackYielded) >= 1
    /\ next_back(iter[1]).stepped = Some(0)
    /\ next(iter[1]).stepped = Some(1)

\* The chars step is tried on: the inputs, and the ends of the cursor.
StepChars ==
    InputChars \cup (IF Live THEN { iter[1].start, iter[1].end } ELSE {})

\* C13: for a scalar value c below 0x10FFFF the forward step is 0xE000 when c
\* is 0xD7FF and c + 1 otherwise, and it is the scalar value right after c; for
\* a scalar value c above 0 the backward step is 0xD7FF when c is 0xE000 and
\* c - 1 otherwise, and it is the scalar value right before c. A call that
\* moves start or end moves it by such a step.
C13_StepAlgorithm ==
    /\ \A c \in StepChars :
           /\ from_u32_is_some(c)
           /\ c < CHAR_MAX =>
                  /\ step(c, "Forward") = IF c = 55295 THEN 57344 ELSE c + 1
                  /\ Adjacent(c, step(c, "Forward"))
           /\ c > 0 =>
                  /\ step(c, "Backward") = IF c = 57344 THEN 55295 ELSE c - 1
                  /\ Adjacent(step(c, "Backward"), c)
    /\ \A i \in 1 .. Len(FrontYielded) - 1 :
           Adjacent(FrontYielded[i], FrontYielded[i + 1])
    /\ \A i \in 1 .. Len(BackYielded) - 1 :
           Adjacent(BackYielded[i + 1], BackYielded[i])

C13_Witness ==
    /\ Live
    /\ Len(BackYielded) >= 2
    /\ BackYielded[1] = AFTER_SUR
    /\ BackYielded[2] = BEFORE_SUR
    /\ Len(FrontYielded) >= 2
    /\ iter[1].finished

\* What size_hint reports of the cursor new(arg_start, arg_end) returns.
InitialLen == size_hint(new(arg_start, arg_end)[1])[1]

\* The surrogates within the integer interval arg_start..arg_end.
SurrogatesInSpan ==
    { c \in arg_start .. arg_end : c >= SUR_START /\ c <= SUR_END }

\* C14: with N the initial size_hint of new(start, end), N is end - start + 1
\* less the surrogates in that span; however the calls are split between next
\* and next_back, each of the first N calls returns a value and every later
\* call returns None, and finished is true exactly from call N on.
C14_YieldCount ==
    Live =>
        /\ TraceComplete
        /\ InitialLen = (arg_end - arg_start + 1) - Cardinality(SurrogatesInSpan)
        /\ InitialLen >= 1
        /\ \A i \in 1 .. Len(calls) :
               IF i <= InitialLen THEN calls[i].ret # None ELSE calls[i].ret = None
        /\ iter[1].finished <=> ncalls >= InitialLen

C14_Witness ==
    /\ Live
    /\ SpansSurrogates
    /\ InitialLen = MaxLen
    /\ ncalls = InitialLen + 1
    /\ calls[InitialLen].ret # None
    /\ calls[InitialLen + 1].ret = None
    /\ Len(FrontYielded) >= 1
    /\ Len(BackYielded) >= 1
    /\ iter[1].finished

\* C15: finished turns from false to true on exactly the next or next_back
\* calls made while start = end, and on no other step; once true it stays true;
\* and in every finished state start = end.
C15_FinishedFlag ==
    /\ [](Live /\ iter[1].finished => iter[1].start = iter[1].end)
    /\ [][Live =>
            ((~iter[1].finished /\ iter'[1].finished)
                <=> (IsCall /\ ~iter[1].finished /\ iter[1].start = iter[1].end))]_vars
    /\ [][(Live /\ iter[1].finished) => iter'[1].finished]_vars

C15_Witness ==
    /\ Live
    /\ iter[1].finished
    /\ iter[1].start = iter[1].end
    /\ arg_start < iter[1].start
    /\ iter[1].end < arg_end
    /\ nnone = MaxExtraCalls
    /\ calls[Len(calls) - MaxExtraCalls].op = "next_back"

\* The step is a call of `op`.
IsCallOf(op) == IsCall /\ calls'[Len(calls')].op = op

\* C16: next never changes end and next_back never changes start; the call
\* that yields the last value (made with start = end) changes finished alone;
\* a call on a finished cursor changes no field; and size_hint changes no
\* field.
C16_Frame ==
    /\ [][(Live /\ IsCallOf("next")) => iter'[1].end = iter[1].end]_vars
    /\ [][(Live /\ IsCallOf("next_back")) => iter'[1].start = iter[1].start]_vars
    /\ [][(Live /\ IsCall /\ ~iter[1].finished /\ iter[1].start = iter[1].end) =>
            iter'[1] = [iter[1] EXCEPT !.finished = TRUE]]_vars
    /\ [][(Live /\ IsCall /\ iter[1].finished) => iter' = iter]_vars
    /\ [][(Live /\ ~IsCall) => iter' = iter]_vars

C16_Witness ==
    /\ Live
    /\ iter[1].finished
    /\ Len(FrontYielded) >= 1
    /\ Len(BackYielded) >= 2
    /\ iter[1].start = iter[1].end
    /\ iter[1].start = FrontYielded[Len(FrontYielded)]
    /\ nnone >= 1
    /\ hint = Some(<< 0, Some(0) >>)

\* size_hint's naive_count, and the test that guards its subtraction.
naive_count(self) == self.end - self.start + 1

spans_block(self) == self.start <= BEFORE_SUR /\ self.end >= AFTER_SUR

\* C17: in every reachable unfinished state, end >= start, so end - start + 1
\* does not underflow; when start <= 0xD7FF and end >= 0xE000, naive_count -
\* 2048 does not underflow and is at least 2; the surrogate block lies wholly
\* inside the integer interval start..end (exactly when that test holds) or
\* wholly outside it; and size_hint reports between 1 and 1112064.
C17_SizeHintArithmetic ==
    (Live /\ ~iter[1].finished) =>
        LET self == iter[1]
        IN  /\ self.end >= self.start
            /\ naive_count(self) >= 1
            /\ naive_count(self) <= CHAR_MAX + 1
            /\ spans_block(self) => naive_count(self) - (SUR_END - SUR_START + 1) >= 2
            /\ \/ self.start < SUR_START /\ self.end > SUR_END /\ spans_block(self)
               \/ (self.end < SUR_START \/ self.start > SUR_END) /\ ~spans_block(self)
            /\ size_hint(self)[1] =
                   IF spans_block(self)
                   THEN naive_count(self) - (SUR_END - SUR_START + 1)
                   ELSE naive_count(self)
            /\ size_hint(self)[1] >= 1
            /\ size_hint(self)[1] <= FullCount

C17_Witness ==
    /\ Live
    /\ ~iter[1].finished
    /\ arg_start < BEFORE_SUR
    /\ arg_end > AFTER_SUR
    /\ iter[1].start = BEFORE_SUR
    /\ iter[1].end = AFTER_SUR
    /\ naive_count(iter[1]) = 2050
    /\ hint = Some(<< 2, Some(2) >>)

\* C18: the two directions of step undo each other on scalar values: for a
\* scalar value c below 0x10FFFF, stepping forward then backward gives c; for a
\* scalar value c above 0, stepping backward then forward gives c. (Under
\* SpecFull the start of the cursor takes every scalar value in turn.)
C18_StepInverse ==
    \A c \in StepChars :
        /\ from_u32_is_some(c)
        /\ c < CHAR_MAX => step(step(c, "Forward"), "Backward") = c
        /\ c > 0 => step(step(c, "Backward"), "Forward") = c

C18_Witness ==
    /\ Live
    /\ ~iter[1].finished
    /\ Len(FrontYielded) >= 1
    /\ FrontYielded[Len(FrontYielded)] = BEFORE_SUR
    /\ iter[1].start = AFTER_SUR
    /\ step(iter[1].start, "Backward") = BEFORE_SUR
    /\ step(BEFORE_SUR, "Forward") = iter[1].start

=============================================================================
